---- MODULE Spec2Model ----
(***************************************************************************)
(* plot_dispatch (src/plot_dispatch.py): the aggregation pipeline that     *)
(* turns a solved PyPSA network into the series of a dispatch chart.       *)
(*                                                                         *)
(* Representation.                                                         *)
(*   - A timestamp is a number of minutes since EpochYear-01-01 00:00.     *)
(*   - n.snapshots is the (strictly increasing, uniformly spaced) index    *)
(*     shared by every time-series table; a time-series table is a         *)
(*     function  column -> [row number -> value], its DOMAIN being the     *)
(*     column set.                                                         *)
(*   - An asset table is a function  asset id -> row record; the empty     *)
(*     table is the function with the empty domain.                        *)
(*   - Power values are integers and multiples of 1000, so that dividing   *)
(*     by 1e3 is exact; p_max_pu is held in percent.                       *)
(*   - The optional arguments days and regions are <<>> for None and       *)
(*     <<v>> for a given value v; regions' value is the set of the list's  *)
(*     elements; time is the sequence of the integers of time.split("-").  *)
(*   - A column of the concatenated carrier table is keyed <<class,        *)
(*     carrier>>: pandas keeps same-labelled columns of different asset    *)
(*     classes apart by position, the class tag stands for that position;  *)
(*     the label of column k is k[2].                                      *)
(***************************************************************************)
EXTENDS Integers, Sequences, FiniteSets, TLC

VARIABLES n, args, out

vars == <<n, args, out>>

----------------------------------------------------------------------------
(* Bounds of the model *)

\* largest power magnitude of an asset, in units of 1000
MaxP == 1
\* largest explicit day count
MaxDays == 2
\* days of data held by the calendar datasets
DataDays == 3

----------------------------------------------------------------------------
(* Generic helpers: sums over finite sets, optional values *)

None == <<>>
Some(v) == <<v>>
IsNone(o) == o = <<>>
Val(o) == o[1]

RECURSIVE SumOver(_, _)
SumOver(f, S) ==
    IF S = {} THEN 0
    ELSE LET x == CHOOSE y \in S : TRUE IN f[x] + SumOver(f, S \ {x})

Abs(x) == IF x < 0 THEN -x ELSE x

\* DataFrame.div(1e3)
Div1e3(x) == x \div 1000

----------------------------------------------------------------------------
(* Calendar: pd.to_datetime, pd.Timedelta, pd.offsets.MonthEnd *)

EpochYear == 2023

IsLeap(y) == (y % 4 = 0 /\ y % 100 # 0) \/ y % 400 = 0

DaysInMonth(y, m) ==
    IF m = 2 THEN (IF IsLeap(y) THEN 29 ELSE 28)
    ELSE IF m \in {4, 6, 9, 11} THEN 30 ELSE 31

DaysInYear(y) == IF IsLeap(y) THEN 366 ELSE 365

RECURSIVE DaysBeforeYear(_)
DaysBeforeYear(y) ==
    IF y <= EpochYear THEN 0 ELSE DaysBeforeYear(y - 1) + DaysInYear(y - 1)

RECURSIVE DaysBeforeMonth(_, _)
DaysBeforeMonth(y, m) ==
    IF m <= 1 THEN 0 ELSE DaysBeforeMonth(y, m - 1) + DaysInMonth(y, m - 1)

\* pd.Timedelta(days=d), pd.Timedelta(hours=h), in minutes
Timedelta(d, h) == (d * 24 + h) * 60

\* pd.to_datetime("y-m-d") and pd.to_datetime("y-m-d hh:00")
to_datetime(y, m, d, h) ==
    Timedelta(DaysBeforeYear(y) + DaysBeforeMonth(y, m) + d - 1, h)

\* the calendar fields of a timestamp
YearOf(t) ==
    CHOOSE y \in (EpochYear - 1)..(EpochYear + 4) :
        to_datetime(y, 1, 1, 0) <= t /\ t < to_datetime(y + 1, 1, 1, 0)
MonthOf(t) ==
    LET y == YearOf(t) IN
    CHOOSE m \in 1..12 :
        /\ to_datetime(y, m, 1, 0) <= t
        /\ t < to_datetime(y, m, DaysInMonth(y, m), 0) + Timedelta(1, 0)
TimeOfDay(t) == t % Timedelta(1, 0)

\* MonthEnd0 as "thirty days on"
MonthEnd0_thirty(t) == t + Timedelta(30, 0)

\* ts + pd.offsets.MonthEnd(0): roll forward to the last day of the month,
\* a timestamp already on it stays; the time of day is kept
MonthEnd0(t) ==
    LET y == YearOf(t)
        m == MonthOf(t)
    IN to_datetime(y, m, DaysInMonth(y, m), 0) + TimeOfDay(t)

\* step 3, lines 86-92
WindowStart(time) ==
    IF Len(time) = 1 THEN to_datetime(time[1], 1, 1, 0)
    ELSE IF Len(time) = 2 THEN to_datetime(time[1], time[2], 1, 0)
    ELSE to_datetime(time[1], time[2], time[3], 0)

\* WindowEnd without the "- 1 hour": the window runs into the next day
WindowEnd_inclusive(time, days) ==
    LET start == WindowStart(time) IN
    IF ~IsNone(days) THEN start + Timedelta(Val(days), 0)
    ELSE IF Len(time) = 1 THEN to_datetime(time[1], 12, 31, 23)
    ELSE IF Len(time) = 2 THEN MonthEnd0(start) + Timedelta(0, 23)
    ELSE start + Timedelta(0, 23)

\* step 3, lines 94-101
WindowEnd(time, days) ==
    LET start == WindowStart(time) IN
    IF ~IsNone(days) THEN start + Timedelta(Val(days), 0) - Timedelta(0, 1)
    ELSE IF Len(time) = 1 THEN to_datetime(time[1], 12, 31, 23)
    ELSE IF Len(time) = 2 THEN MonthEnd0(start) + Timedelta(0, 23)
    ELSE start + Timedelta(0, 23)

\* the row numbers that df.loc[start:end] keeps (label slice, both ends included)
Rows(net, start, end) ==
    {i \in 1..Len(net.snapshots) :
        start <= net.snapshots[i] /\ net.snapshots[i] <= end}

----------------------------------------------------------------------------
(* Step 1: region masks, lines 52-62 *)

\* Series.isin(regions)
isin(table, field, values) ==
    [a \in DOMAIN table |-> table[a][field] \in values]

AllTrue(table) == [a \in DOMAIN table |-> TRUE]

\* gen_mask with "bus == regions" in place of isin: only a one-bus list matches
gen_mask_equality(net, regions) ==
    IF ~IsNone(regions)
    THEN [a \in DOMAIN net.generators |-> Val(regions) = {net.generators[a].bus}]
    ELSE AllTrue(net.generators)

gen_mask(net, regions) ==
    IF ~IsNone(regions) THEN isin(net.generators, "bus", Val(regions))
    ELSE AllTrue(net.generators)

\* for an empty table the code binds [] or an empty Series, and never reads it
sto_mask(net, regions) ==
    IF ~IsNone(regions) THEN isin(net.storage_units, "bus", Val(regions))
    ELSE AllTrue(net.storage_units)

store_mask(net, regions) ==
    IF ~IsNone(regions) THEN isin(net.stores, "bus", Val(regions))
    ELSE AllTrue(net.stores)

region_buses(net, regions) ==
    IF ~IsNone(regions) THEN Val(regions) ELSE net.buses

\* the rows a boolean mask keeps
Selected(mask) == {a \in DOMAIN mask : mask[a]}

----------------------------------------------------------------------------
(* Step 2: aggregation by carrier, in GW, lines 65-83 *)

AllRows(net) == 1..Len(net.snapshots)

\* _agg: the selected columns, grouped by carrier, summed, divided by 1e3
agg(net, df_t, df_stat, mask) ==
    LET sel == Selected(mask) \cap DOMAIN df_t
        labels == {df_stat[a].carrier : a \in sel}
    IN [c \in labels |->
          [i \in AllRows(net) |->
             Div1e3(SumOver([a \in sel |-> df_t[a][i]],
                            {a \in sel : df_stat[a].carrier = c}))]]

\* the columns one asset class brings to pd.concat(axis=1)
ClassColumns(cls, tbl) ==
    [k \in {<<cls, c>> : c \in DOMAIN tbl} |-> tbl[k[2]]]

\* pd.concat([a, b], axis=1): b's columns are added after a's, labels may repeat
concat(a, b) ==
    [k \in DOMAIN a \cup DOMAIN b |-> IF k \in DOMAIN a THEN a[k] ELSE b[k]]

p_by_carrier(net, regions) ==
    LET g == ClassColumns("generators",
                 agg(net, net.generators_t.p, net.generators, gen_mask(net, regions)))
        withSto ==
            IF DOMAIN net.storage_units # {}
            THEN concat(g, ClassColumns("storage_units",
                     agg(net, net.storage_units_t.p, net.storage_units,
                         sto_mask(net, regions))))
            ELSE g
    IN IF DOMAIN net.stores # {}
       THEN concat(withSto, ClassColumns("stores",
                agg(net, net.stores_t.p, net.stores, store_mask(net, regions))))
       ELSE withSto

----------------------------------------------------------------------------
(* Step 3: slicing and the zero-activity drop, lines 103-106 *)

\* df.loc[start:end] of a table
Slice(tbl, rows) == [k \in DOMAIN tbl |-> [i \in rows |-> tbl[k][i]]]

\* the sum of |col[i]| over the rows lo..hi, by halves
RECURSIVE AbsRange(_, _, _)
AbsRange(col, lo, hi) ==
    IF lo > hi THEN 0
    ELSE IF lo = hi THEN Abs(col[lo])
    ELSE LET mid == (lo + hi) \div 2
         IN AbsRange(col, lo, mid) + AbsRange(col, mid + 1, hi)

\* p_slice.abs().sum() of one column; the rows of a slice are consecutive
AbsSum(col) ==
    IF DOMAIN col = {} THEN 0
    ELSE AbsRange(col,
                  CHOOSE i \in DOMAIN col : (i - 1) \notin DOMAIN col,
                  CHOOSE i \in DOMAIN col : (i + 1) \notin DOMAIN col)

\* p_slice.columns[p_slice.abs().sum() == 0]: the LABELS of the all-zero columns
ZeroLabels(tbl) == {k[2] : k \in {j \in DOMAIN tbl : AbsSum(tbl[j]) = 0}}

\* p_slice.drop(columns=zero): drops every column that carries a listed label
DropColumns(tbl, labels) ==
    [k \in {j \in DOMAIN tbl : j[2] \notin labels} |-> tbl[k]]

carrier_slice(net, regions, rows) ==
    LET sl == Slice(p_by_carrier(net, regions), rows)
    IN DropColumns(sl, ZeroLabels(sl))

----------------------------------------------------------------------------
(* Step 4: imports/exports, lines 109-116 *)

ImportsLabel == "Imports/Exports"
ImportsKey == <<"interchange", ImportsLabel>>
ImportsColor == "#7f7f7f"

\* Entering without the test on bus0: every branch that ends in the region set
Entering_bus1(table, rb) ==
    {b \in DOMAIN table : table[b].bus1 \in rb}

\* branches with bus1 in the region set and bus0 outside: their p0 is summed
Entering(table, rb) ==
    {b \in DOMAIN table : table[b].bus1 \in rb /\ table[b].bus0 \notin rb}

\* branches with bus0 in the region set and bus1 outside: their p1 is summed
Leaving(table, rb) ==
    {b \in DOMAIN table : table[b].bus0 \in rb /\ table[b].bus1 \notin rb}

\* BranchFlow reading p0 at both kinds of crossing branch
BranchFlow_p0(table, table_t, rb, i) ==
    SumOver([b \in DOMAIN table |-> table_t.p0[b][i]], Entering(table, rb))
  + SumOver([b \in DOMAIN table |-> table_t.p0[b][i]], Leaving(table, rb))

\* ac, respectively dc, at one row
BranchFlow(table, table_t, rb, i) ==
    SumOver([b \in DOMAIN table |-> table_t.p0[b][i]], Entering(table, rb))
  + SumOver([b \in DOMAIN table |-> table_t.p1[b][i]], Leaving(table, rb))

imports_series(net, regions, rows) ==
    LET rb == region_buses(net, regions) IN
    [i \in rows |->
        Div1e3(BranchFlow(net.lines, net.lines_t, rb, i)
             + BranchFlow(net.links, net.links_t, rb, i))]

\* 'Imports/Exports' in n.carriers.index
InRegistry(carriers, label) == \E j \in 1..Len(carriers) : carriers[j].label = label

\* carriers_after without the membership test: a row is appended every time
carriers_after_append(carriers, show_imports) ==
    IF show_imports
    THEN Append(carriers, [label |-> ImportsLabel, color |-> ImportsColor])
    ELSE carriers

\* lines 115-116: the synthetic entry is added only when absent
carriers_after(carriers, show_imports) ==
    IF show_imports /\ ~InRegistry(carriers, ImportsLabel)
    THEN Append(carriers, [label |-> ImportsLabel, color |-> ImportsColor])
    ELSE carriers

\* p_slice after step 4
p_slice(net, regions, rows, show_imports) ==
    LET cs == carrier_slice(net, regions, rows) IN
    IF show_imports
    THEN [k \in DOMAIN cs \cup {ImportsKey} |->
            IF k = ImportsKey THEN imports_series(net, regions, rows) ELSE cs[k]]
    ELSE cs

----------------------------------------------------------------------------
(* Step 5: load series, lines 119-124 *)

\* "if regions:" is false for None and for the empty list
Truthy(regions) == ~IsNone(regions) /\ Val(regions) # {}

load_cols(net, regions) ==
    IF Truthy(regions)
    THEN {c \in DOMAIN net.loads :
            net.loads[c].bus \in Val(regions) /\ c \in DOMAIN net.loads_t.p_set}
    ELSE DOMAIN net.loads_t.p_set

load_series(net, regions, rows) ==
    [i \in rows |->
        Div1e3(SumOver([c \in DOMAIN net.loads_t.p_set |-> net.loads_t.p_set[c][i]],
                       load_cols(net, regions)))]

----------------------------------------------------------------------------
(* Step 6: VRE curtailment, lines 127-138 *)

vre == {"Solar", "Wind", "Rooftop Solar"}

mask_vre(net, regions) ==
    [g \in DOMAIN net.generators |->
        gen_mask(net, regions)[g] /\ net.generators[g].carrier \in vre]

\* p_max_pu (percent) times p_nom
TimesPu(pu, p_nom) == (pu * p_nom) \div 100

ClipLower0(x) == IF x < 0 THEN 0 ELSE x

\* one generator's entry of avail.sub(disp, fill_value=0): a selected generator
\* with no p_max_pu column has a NaN availability after the multiply's outer
\* alignment with p_nom, and fill_value replaces it by 0
gap(net, g, i) ==
    LET avail == IF g \in DOMAIN net.generators_t.p_max_pu
                 THEN TimesPu(net.generators_t.p_max_pu[g][i], net.generators[g].p_nom)
                 ELSE 0
    IN avail - net.generators_t.p[g][i]

\* curtail_at clipping the row sum instead of each generator's gap
curtail_at_sum_then_clip(net, sel, i) ==
    Div1e3(ClipLower0(SumOver([g \in sel |-> gap(net, g, i)], sel)))

\* .clip(lower=0).sum(axis=1).div(1e3)
curtail_at(net, sel, i) ==
    Div1e3(SumOver([g \in sel |-> ClipLower0(gap(net, g, i))], sel))

curtail(net, regions, rows, show_curtailment) ==
    IF show_curtailment
    THEN Some([i \in rows |-> curtail_at(net, Selected(mask_vre(net, regions)), i)])
    ELSE None


----------------------------------------------------------------------------
(* Step 7: the two renderers, lines 141-303, as far as they can fail *)

Labels(tbl) == {k[2] : k \in DOMAIN tbl}

\* two columns of the table carry the same label
RepeatedLabel(tbl) == \E j, k \in DOMAIN tbl : j # k /\ j[2] = k[2]

\* column col has a positive, respectively a negative, entry
HasPositive(col) == \E i \in DOMAIN col : col[i] > 0
HasNegative(col) == \E i \in DOMAIN col : col[i] < 0

\* lines 144-262: plotly. positive_data[col] is a frame when col labels two
\* columns, and "if frame.sum() > 0" raises; n.carriers.loc[col, 'color'] is
\* read for the columns that are drawn
render_interactive(carriers, ps) ==
    IF RepeatedLabel(ps) THEN "raised"
    ELSE IF \E k \in DOMAIN ps :
                (HasPositive(ps[k]) \/ HasNegative(ps[k])) /\ ~InRegistry(carriers, k[2])
    THEN "raised"
    ELSE "ok"

\* lines 264-303: matplotlib. The color of every column is read (267);
\* plot.area of a frame with no column raises "no numeric data to plot" (268);
\* with no row in the window up and dn are NaN and set_ylim raises (278-282)
render_static(carriers, ps, rows) ==
    IF \E k \in DOMAIN ps : ~InRegistry(carriers, k[2]) THEN "raised"
    ELSE IF DOMAIN ps = {} THEN "raised"
    ELSE IF rows = {} THEN "raised"
    ELSE "ok"

render(carriers, ps, rows, interactive) ==
    IF interactive THEN render_interactive(carriers, ps)
    ELSE render_static(carriers, ps, rows)

----------------------------------------------------------------------------
(* plot_dispatch, lines 7-303 *)

\* the series steps 2 to 6 hand to the renderer
Series(net, time, days, regions, show_imports, show_curtailment) ==
    LET start == WindowStart(time)
        end == WindowEnd(time, days)
        rows == Rows(net, start, end)
    IN [start |-> start,
        end |-> end,
        rows |-> rows,
        p_slice |-> p_slice(net, regions, rows, show_imports),
        load_series |-> load_series(net, regions, rows),
        curtail |-> curtail(net, regions, rows, show_curtailment)]

Outcome(net, a) ==
    LET s == Series(net, a.time, a.days, a.regions, a.show_imports, a.show_curtailment)
    IN [status |-> render(carriers_after(net.carriers, a.show_imports),
                          s.p_slice, s.rows, a.interactive),
        series |-> s]

Arguments(time, days, regions, show_imports, show_curtailment, interactive) ==
    [time |-> time, days |-> days, regions |-> regions,
     show_imports |-> show_imports, show_curtailment |-> show_curtailment,
     interactive |-> interactive]

\* one invocation: the registry write of step 4 is its only effect on n
PlotDispatch(time, days, regions, show_imports, show_curtailment, interactive) ==
    LET a == Arguments(time, days, regions, show_imports, show_curtailment, interactive)
    IN /\ args' = a
       /\ out' = Outcome(n, a)
       /\ n' = [n EXCEPT !.carriers = carriers_after(@, show_imports)]


----------------------------------------------------------------------------
(* Datasets *)

\* power values: multiples of 1000 up to MaxP thousand
Dispatch == {1000 * k : k \in 0..MaxP}
Flow == {1000 * k : k \in (-MaxP)..MaxP}

\* the registry holds a color for every carrier of the asset tables
BaseCarriers ==
    << [label |-> "Wind", color |-> "#1f77b4"],
       [label |-> "Solar", color |-> "#ffbb00"],
       [label |-> "Hydro", color |-> "#2ca02c"],
       [label |-> "Battery", color |-> "#9467bd"],
       [label |-> "Hydrogen", color |-> "#17becf"] >>

\* the same registry on a network that already holds an Imports/Exports entry
CarriersWithImports ==
    Append(BaseCarriers, [label |-> ImportsLabel, color |-> "#000000"])

Network(buses, snapshots, generators, gen_p, gen_pu, storage_units, sto_p, stores, store_p, lines, lines_t, links, links_t, loads, p_set, carriers) ==
    [buses |-> buses,
     snapshots |-> snapshots,
     generators |-> generators,
     generators_t |-> [p |-> gen_p, p_max_pu |-> gen_pu],
     storage_units |-> storage_units,
     storage_units_t |-> [p |-> sto_p],
     stores |-> stores,
     stores_t |-> [p |-> store_p],
     lines |-> lines,
     lines_t |-> lines_t,
     links |-> links,
     links_t |-> links_t,
     loads |-> loads,
     loads_t |-> [p_set |-> p_set],
     carriers |-> carriers]

Empty == <<>>
NoBranches_t == [p0 |-> Empty, p1 |-> Empty]

\* two hourly snapshots on either side of new year
TwoSnapshots == << to_datetime(2023, 12, 31, 23), to_datetime(2024, 1, 1, 0) >>

\* one line A-B that carries 1000 from A to B, then 1000 from B to A
LineAB == [l1 |-> [bus0 |-> "A", bus1 |-> "B"]]
LineAB_t == [p0 |-> [l1 |-> <<1000, -1000>>], p1 |-> [l1 |-> <<-1000, 1000>>]]

\* loads on A, B and C; l3 has no p_set column
ThreeLoads == [l1 |-> [bus |-> "A"], l2 |-> [bus |-> "B"], l3 |-> [bus |-> "C"]]
TwoLoadSeries == [l1 |-> <<1000, 2000>>, l2 |-> <<3000, 1000>>]

\* what a storage unit does over the two snapshots
StorageProfiles ==
    {<<0, 0>>, <<1000, -1000>>, <<-1000, 1000>>, <<1000, 0>>, <<0, -1000>>}

\* Aggregation datasets: two generators, at most one storage unit and one
\* store, with carrier labels that may repeat across the asset classes
AggNetworks ==
    { Network({"A", "B", "C"}, TwoSnapshots,
              [g1 |-> [bus |-> "A", carrier |-> c1, p_nom |-> 2000],
               g2 |-> [bus |-> "B", carrier |-> c2, p_nom |-> 2000]],
              [g1 |-> p1, g2 |-> <<1000, 0>>],
              [g1 |-> <<100, 50>>],
              su[1], su[2], st[1], st[2],
              LineAB, LineAB_t, Empty, NoBranches_t,
              ThreeLoads, TwoLoadSeries, BaseCarriers) :
        c1 \in {"Wind", "Hydro"}, c2 \in {"Wind", "Hydro"},
        p1 \in [1..2 -> Dispatch],
        su \in {<<Empty, Empty>>}
               \cup {<<[s1 |-> [bus |-> "A", carrier |-> c]], [s1 |-> p]>> :
                        c \in {"Hydro", "Battery"}, p \in StorageProfiles},
        st \in {<<Empty, Empty>>,
                <<[t1 |-> [bus |-> "B", carrier |-> "Hydrogen"]],
                  [t1 |-> <<1000, -1000>>]>>} }

NoArgs == Arguments(<<EpochYear>>, None, None, FALSE, FALSE, FALSE)
NoOut == [status |-> "none", series |-> Empty]
Called == out.status # "none"

Init ==
    /\ n \in AggNetworks
    /\ args = NoArgs
    /\ out = NoOut

AggRegions == {None, Some({}), Some({"A"}), Some({"B"}), Some({"A", "B", "C"})}

\* a year: one snapshot of the two lies in 2023, the other in 2024
PlotYear ==
    \E time \in {<<2023>>, <<2024>>}, regions \in AggRegions :
        PlotDispatch(time, None, regions, TRUE, TRUE, TRUE)

\* two days from 2023-12-31: both snapshots
PlotDays ==
    \E regions \in AggRegions :
        PlotDispatch(<<2023, 12, 31>>, Some(2), regions, TRUE, TRUE, TRUE)

Next == PlotYear \/ PlotDays

Spec == Init /\ [][Next]_vars

----------------------------------------------------------------------------
(* Claims on the aggregation datasets (Spec) *)

\* the series of the last invocation, and what its arguments give on net
LastSeries == out.series
SeriesFor(net, regions) ==
    Series(net, args.time, args.days, regions, args.show_imports, args.show_curtailment)

\* the assets of a table attached to a bus of R
AtBuses(table, R) == {a \in DOMAIN table : table[a].bus \in R}

\* the power of the assets of a table attached to a bus of R, at row i
PowerAt(table, table_p, R, i) ==
    SumOver([a \in DOMAIN table |-> table_p[a][i]], AtBuses(table, R))

\* the carrier columns of p_slice, without the Imports/Exports column
CarrierKeys(ps) == DOMAIN ps \ {ImportsKey}

\* C1: in a region-filtered call, at every timestamp of the window the carrier
\* columns of the aggregated table (after the zero-activity drop, without
\* Imports/Exports) sum to the power of the selected generators, storage units
\* and stores divided by 1000, also when carrier labels repeat across classes.
C1_MassConservation ==
    (Called /\ ~IsNone(args.regions)) =>
        \A i \in LastSeries.rows :
            SumOver([k \in CarrierKeys(LastSeries.p_slice) |-> LastSeries.p_slice[k][i]],
                    CarrierKeys(LastSeries.p_slice))
              = Div1e3(PowerAt(n.generators, n.generators_t.p, Val(args.regions), i)
                     + PowerAt(n.storage_units, n.storage_units_t.p, Val(args.regions), i)
                     + PowerAt(n.stores, n.stores_t.p, Val(args.regions), i))

\* C2: for a non-empty region set R the three masks select exactly the assets
\* whose bus is in R, and R = all buses gives the series of regions = None.
C2_RegionMasks ==
    (Called /\ Truthy(args.regions)) =>
        /\ Selected(gen_mask(n, args.regions)) = AtBuses(n.generators, Val(args.regions))
        /\ Selected(sto_mask(n, args.regions)) = AtBuses(n.storage_units, Val(args.regions))
        /\ Selected(store_mask(n, args.regions)) = AtBuses(n.stores, Val(args.regions))
        /\ Val(args.regions) = n.buses => LastSeries = SeriesFor(n, None)

\* C2's case: a call with all buses whose table keeps a carrier column
C2_Witness ==
    /\ Called
    /\ args.regions = Some(n.buses)
    /\ CarrierKeys(LastSeries.p_slice) # {}
    /\ LastSeries.rows # {}

\* C3: regions = [] selects every generator, storage unit, store and load and
\* gives the series of regions = None.
C3_EmptyMeansAll ==
    (Called /\ args.regions = Some({})) =>
        /\ Selected(gen_mask(n, args.regions)) = DOMAIN n.generators
        /\ Selected(sto_mask(n, args.regions)) = DOMAIN n.storage_units
        /\ Selected(store_mask(n, args.regions)) = DOMAIN n.stores
        /\ load_cols(n, args.regions) = DOMAIN n.loads_t.p_set
        /\ LastSeries = SeriesFor(n, None)

\* the network without generator g
WithoutGenerator(net, g) ==
    LET keep == DOMAIN net.generators \ {g} IN
    [net EXCEPT
        !.generators = [a \in keep |-> net.generators[a]],
        !.generators_t =
            [p |-> [a \in keep |-> net.generators_t.p[a]],
             p_max_pu |-> [a \in DOMAIN net.generators_t.p_max_pu \ {g} |->
                              net.generators_t.p_max_pu[a]]]]

\* the value of column k of a series record at row i, 0 for a column not there
ColumnAt(s, k, i) == IF k \in DOMAIN s.p_slice THEN s.p_slice[k][i] ELSE 0

\* C9: in a region-filtered request a generator outside the region set adds
\* nothing to any output series; with its bus added to the region set its full
\* power is in its carrier's column and its full clipped availability gap in
\* the curtailment series.
C9_GeneratorRoundTrip ==
    (Called /\ ~IsNone(args.regions)) =>
        \A g \in DOMAIN n.generators \ AtBuses(n.generators, Val(args.regions)) :
            LET wider == Some(Val(args.regions) \cup {n.generators[g].bus})
                with == SeriesFor(n, wider)
                without == SeriesFor(WithoutGenerator(n, g), wider)
                k == <<"generators", n.generators[g].carrier>>
            IN /\ LastSeries = SeriesFor(WithoutGenerator(n, g), args.regions)
               /\ \A i \in LastSeries.rows :
                    /\ ColumnAt(with, k, i) - ColumnAt(without, k, i)
                         = Div1e3(n.generators_t.p[g][i])
                    /\ ~IsNone(with.curtail) =>
                         Val(with.curtail)[i] - Val(without.curtail)[i]
                           = IF n.generators[g].carrier \in vre
                             THEN Div1e3(ClipLower0(gap(n, g, i)))
                             ELSE 0

----------------------------------------------------------------------------
(* Calendar datasets and their specification (SpecTime) *)

\* DataDays days of snapshots from 2024-01-01 00:00, one every freq minutes
CalendarSnapshots(freq) ==
    [i \in 1..((DataDays * 24 * 60) \div freq) |->
        to_datetime(2024, 1, 1, 0) + (i - 1) * freq]

Constant(snapshots, v) == [i \in 1..Len(snapshots) |-> v]

\* one wind generator and one load with flat series, sampled every 30 or 60 minutes
TimeNetworks ==
    { Network({"A"}, CalendarSnapshots(freq),
              [g1 |-> [bus |-> "A", carrier |-> "Wind", p_nom |-> 2000]],
              [g1 |-> Constant(CalendarSnapshots(freq), 1000)],
              [g1 |-> Constant(CalendarSnapshots(freq), 100)],
              Empty, Empty, Empty, Empty,
              Empty, NoBranches_t, Empty, NoBranches_t,
              [l1 |-> [bus |-> "A"]],
              [l1 |-> Constant(CalendarSnapshots(freq), 1000)],
              BaseCarriers) :
        freq \in {30, 60} }

InitTime ==
    /\ n \in TimeNetworks
    /\ args = NoArgs
    /\ out = NoOut

DayCounts == {None} \cup {Some(d) : d \in 0..MaxDays}

\* time = "YYYY"
PlotYearGrain ==
    \E y \in {2023, 2024}, days \in DayCounts :
        PlotDispatch(<<y>>, days, None, TRUE, TRUE, TRUE)

\* time = "YYYY-MM"
PlotMonthGrain ==
    \E y \in {2023, 2024}, m \in 1..12, days \in DayCounts :
        PlotDispatch(<<y, m>>, days, None, TRUE, TRUE, TRUE)

\* time = "YYYY-MM-DD"
PlotDate ==
    \E time \in {<<2023, 12, 31>>, <<2024, 1, 1>>, <<2024, 1, 2>>,
                 <<2024, 2, 28>>, <<2024, 2, 29>>},
       days \in DayCounts :
        PlotDispatch(time, days, None, TRUE, TRUE, TRUE)

NextTime == PlotYearGrain \/ PlotMonthGrain \/ PlotDate

SpecTime == InitTime /\ [][NextTime]_vars

\* the sampling interval of the dataset, in minutes
SamplingInterval(net) == net.snapshots[2] - net.snapshots[1]

\* the dataset has a sample at every instant of [start, start + d days)
Covers(net, start, d) ==
    /\ net.snapshots[1] <= start
    /\ start + Timedelta(d, 0) <= net.snapshots[Len(net.snapshots)] + SamplingInterval(net)
    /\ (start - net.snapshots[1]) % SamplingInterval(net) = 0

\* the grain start of a time spec: Jan 1, day 1 of the month, the date, at 00:00
GrainStart(time) ==
    to_datetime(time[1],
                IF Len(time) >= 2 THEN time[2] ELSE 1,
                IF Len(time) >= 3 THEN time[3] ELSE 1, 0)

\* C5 as stated: with a day count d the window ends one sampling interval of
\* the dataset before start + d days and so holds exactly d calendar days of
\* samples, for every grain.
C5_DayCountSamplingInterval ==
    (Called /\ ~IsNone(args.days)) =>
        LET d == Val(args.days)
            s == LastSeries
        IN /\ s.start = GrainStart(args.time)
           /\ s.end = s.start + Timedelta(d, 0) - SamplingInterval(n)
           /\ Covers(n, s.start, d) =>
                Cardinality(s.rows) * SamplingInterval(n) = Timedelta(d, 0)

\* C5 amended: with a day count d the window ends one HOUR before start + d
\* days, whatever the grain and the dataset's sampling interval; on an hourly
\* dataset that covers it the window holds exactly 24 * d samples.
C5_DayCountOneHour ==
    (Called /\ ~IsNone(args.days)) =>
        LET d == Val(args.days)
            s == LastSeries
        IN /\ s.start = GrainStart(args.time)
           /\ s.end = s.start + d * 1440 - 60
           /\ (SamplingInterval(n) = 60 /\ Covers(n, s.start, d)) =>
                Cardinality(s.rows) = 24 * d

\* C5's case: a year spec with a day count of two on hourly data
C5_Witness ==
    /\ Called
    /\ Len(args.time) = 1
    /\ args.days = Some(2)
    /\ SamplingInterval(n) = 60
    /\ Cardinality(LastSeries.rows) = 48

\* the first instant of the month after month m of year y
NextMonthStart(y, m) ==
    IF m = 12 THEN to_datetime(y + 1, 1, 1, 0) ELSE to_datetime(y, m + 1, 1, 0)

\* C6: without a day count the window is Jan 1 00:00 to Dec 31 23:00 for a
\* year, day 1 00:00 to 23:00 of the month's last calendar day for a
\* year-month (Feb 29 in a leap year), the date to the date + 23 h otherwise.
C6_GrainDefaults ==
    (Called /\ IsNone(args.days)) =>
        LET s == LastSeries
            y == args.time[1]
        IN /\ Len(args.time) = 1 =>
                /\ s.start = to_datetime(y, 1, 1, 0)
                /\ s.end = to_datetime(y + 1, 1, 1, 0) - 60
           /\ Len(args.time) = 2 =>
                /\ s.start = to_datetime(y, args.time[2], 1, 0)
                /\ s.end = NextMonthStart(y, args.time[2]) - 60
                /\ args.time = <<2024, 2>> => s.end = to_datetime(2024, 2, 29, 23)
                /\ args.time = <<2023, 2>> => s.end = to_datetime(2023, 2, 28, 23)
                /\ args.time = <<2024, 7>> => s.end = to_datetime(2024, 7, 31, 23)
           /\ Len(args.time) = 3 =>
                /\ s.start = to_datetime(y, args.time[2], args.time[3], 0)
                /\ s.end = s.start + 23 * 60

\* C6's case: February of a leap year, no day count
C6_Witness ==
    /\ Called
    /\ IsNone(args.days)
    /\ args.time = <<2024, 2>>
    /\ LastSeries.end = to_datetime(2024, 2, 29, 23)

----------------------------------------------------------------------------
(* Curtailment datasets and their specification (SpecCurt) *)

\* g1: wind or hydro at A, with or without a p_max_pu column; g2: utility or
\* rooftop solar at A or B. p_nom is 2000, so p_max_pu of 50 leaves 1000.
CurtNetworks ==
    { Network({"A", "B"}, TwoSnapshots,
              [g1 |-> [bus |-> "A", carrier |-> c1, p_nom |-> 2000],
               g2 |-> [bus |-> b2, carrier |-> c2, p_nom |-> 2000]],
              [g1 |-> p1, g2 |-> p2],
              pu1 @@ [g2 |-> <<50, 100>>],
              Empty, Empty, Empty, Empty,
              LineAB, LineAB_t, Empty, NoBranches_t,
              ThreeLoads, TwoLoadSeries, BaseCarriers) :
        c1 \in {"Wind", "Hydro"}, c2 \in {"Solar", "Rooftop Solar"},
        b2 \in {"A", "B"},
        p1 \in [1..2 -> Dispatch], p2 \in {<<0, 1000>>, <<1000, 0>>},
        pu1 \in {Empty, [g1 |-> <<100, 50>>], [g1 |-> <<50, 0>>]} }

InitCurt ==
    /\ n \in CurtNetworks
    /\ args = NoArgs
    /\ out = NoOut

CurtRegions == {None, Some({}), Some({"A"}), Some({"B"}), Some({"A", "B"})}

\* curtailment requested
PlotCurtailment ==
    \E time \in {<<2024>>, <<2023, 12, 31>>}, regions \in CurtRegions :
        PlotDispatch(time, IF Len(time) = 1 THEN None ELSE Some(2),
                     regions, TRUE, TRUE, TRUE)

\* curtailment not requested
PlotNoCurtailment ==
    \E time \in {<<2024>>, <<2023, 12, 31>>}, regions \in CurtRegions :
        PlotDispatch(time, IF Len(time) = 1 THEN None ELSE Some(2),
                     regions, TRUE, FALSE, TRUE)

NextCurt == PlotCurtailment \/ PlotNoCurtailment

SpecCurt == InitCurt /\ [][NextCurt]_vars

\* the generators of the region selection with a renewable carrier
RegionVre(net, regions) ==
    {g \in DOMAIN net.generators :
        /\ IsNone(regions) \/ net.generators[g].bus \in Val(regions)
        /\ net.generators[g].carrier \in {"Solar", "Wind", "Rooftop Solar"}}

\* p_max_pu * p_nom of generator g at row i; nothing is available to a
\* generator that has no p_max_pu series
Available(net, g, i) ==
    IF g \in DOMAIN net.generators_t.p_max_pu
    THEN (net.generators_t.p_max_pu[g][i] * net.generators[g].p_nom) \div 100
    ELSE 0

\* max(0, p_max_pu * p_nom - p) of generator g at row i
ClippedGap(net, g, i) ==
    LET d == Available(net, g, i) - net.generators_t.p[g][i]
    IN IF d > 0 THEN d ELSE 0

\* C7: at each timestamp the curtailment series is the sum over the selected
\* Solar, Wind and Rooftop Solar generators of max(0, p_max_pu * p_nom - p),
\* divided by 1000: gaps are clipped before they are summed, the series is
\* never negative and never below any one generator's own clipped gap.
C7_ClipThenSum ==
    (Called /\ args.show_curtailment) =>
        \A i \in LastSeries.rows :
            LET sel == RegionVre(n, args.regions)
                c == Val(LastSeries.curtail)[i]
            IN /\ c = Div1e3(SumOver([g \in sel |-> ClippedGap(n, g, i)], sel))
               /\ c >= 0
               /\ \A g \in sel : c >= Div1e3(ClippedGap(n, g, i))

\* C7's case: in the window one selected renewable generator is dispatched
\* above its availability while another is curtailed
C7_Witness ==
    /\ Called
    /\ args.show_curtailment
    /\ \E i \in LastSeries.rows : \E g, h \in RegionVre(n, args.regions) :
          /\ g \in DOMAIN n.generators_t.p_max_pu
          /\ Available(n, g, i) < n.generators_t.p[g][i]
          /\ ClippedGap(n, h, i) > 0
          /\ Val(LastSeries.curtail)[i] > 0

----------------------------------------------------------------------------
(* Interchange datasets and their specification (SpecIx) *)

\* a lossless branch profile has p1 = -p0 at every snapshot
Lossless(p0) == [i \in DOMAIN p0 |-> -p0[i]]

\* one link between A and B: none, lossless, or losing 1000 of 2000 on the way
LinkChoices ==
    {<<Empty, NoBranches_t>>}
    \cup {<<[k1 |-> [bus0 |-> e[1], bus1 |-> e[2]]], [p0 |-> [k1 |-> f[1]], p1 |-> [k1 |-> f[2]]]>> :
             e \in {<<"A", "B">>, <<"B", "A">>},
             f \in {<< <<1000, -1000>>, <<-1000, 1000>> >>,
                    << <<2000, 0>>, <<-1000, 0>> >>}}

\* line l1 between two of the buses A, B, C in either declared orientation,
\* lossless, line l2 from B to C, and at most one link
IxNetworks ==
    { Network({"A", "B", "C"}, TwoSnapshots,
              [g1 |-> [bus |-> "A", carrier |-> "Wind", p_nom |-> 2000]],
              [g1 |-> <<1000, 1000>>], [g1 |-> <<100, 100>>],
              Empty, Empty, Empty, Empty,
              [l1 |-> [bus0 |-> e[1], bus1 |-> e[2]], l2 |-> [bus0 |-> "B", bus1 |-> "C"]],
              [p0 |-> [l1 |-> f, l2 |-> <<1000, 0>>],
               p1 |-> [l1 |-> Lossless(f), l2 |-> <<-1000, 0>>]],
              lk[1], lk[2],
              ThreeLoads, TwoLoadSeries, BaseCarriers) :
        e \in {<<"A", "B">>, <<"B", "A">>, <<"A", "C">>, <<"C", "B">>},
        f \in [1..2 -> Flow],
        lk \in LinkChoices }

InitIx ==
    /\ n \in IxNetworks
    /\ args = NoArgs
    /\ out = NoOut

IxRegions == {None, Some({}), Some({"A"}), Some({"B"}), Some({"A", "B"}),
              Some({"A", "B", "C"})}

\* imports requested
PlotImports ==
    \E time \in {<<2024>>, <<2023, 12, 31>>}, regions \in IxRegions :
        PlotDispatch(time, IF Len(time) = 1 THEN None ELSE Some(2),
                     regions, TRUE, TRUE, TRUE)

\* imports not requested
PlotNoImports ==
    \E time \in {<<2024>>, <<2023, 12, 31>>}, regions \in IxRegions :
        PlotDispatch(time, IF Len(time) = 1 THEN None ELSE Some(2),
                     regions, FALSE, TRUE, TRUE)

NextIx == PlotImports \/ PlotNoImports

SpecIx == InitIx /\ [][NextIx]_vars

\* the region set of the last invocation
RegionSet == IF IsNone(args.regions) THEN n.buses ELSE Val(args.regions)

\* branch b has exactly one endpoint in R
Crosses(table, b, R) == (table[b].bus0 \in R) # (table[b].bus1 \in R)

\* the power branch b delivers into R at row i: what its terminal inside R
\* injects into its bus, the opposite of what that terminal withdraws
NetInflow(table, table_t, b, R, i) ==
    IF ~Crosses(table, b, R) THEN 0
    ELSE IF table[b].bus0 \in R THEN -table_t.p0[b][i]
    ELSE -table_t.p1[b][i]

\* what the stated rule takes from branch b at row i: p0 with bus1 inside and
\* bus0 outside, p1 with bus0 inside and bus1 outside
RuleTerm(table, table_t, b, R, i) ==
    IF table[b].bus1 \in R /\ table[b].bus0 \notin R THEN table_t.p0[b][i]
    ELSE IF table[b].bus0 \in R /\ table[b].bus1 \notin R THEN table_t.p1[b][i]
    ELSE 0

\* every crossing branch of the table is lossless at row i
AllLossless(table, table_t, R, i) ==
    \A b \in DOMAIN table :
        Crosses(table, b, R) => table_t.p1[b][i] = -table_t.p0[b][i]

\* the network with every line and link declared the other way round
Flipped(net) ==
    [net EXCEPT
        !.lines = [b \in DOMAIN net.lines |->
                      [bus0 |-> net.lines[b].bus1, bus1 |-> net.lines[b].bus0]],
        !.lines_t = [p0 |-> net.lines_t.p1, p1 |-> net.lines_t.p0],
        !.links = [b \in DOMAIN net.links |->
                      [bus0 |-> net.links[b].bus1, bus1 |-> net.links[b].bus0]],
        !.links_t = [p0 |-> net.links_t.p1, p1 |-> net.links_t.p0]]

\* C4: the interchange series is the sum of p0 over the branches with bus1
\* inside and bus0 outside plus p1 over those with bus0 inside and bus1
\* outside, divided by 1000; where the crossing branches are lossless that is
\* the net power entering the region divided by 1000; and it is the same when
\* the branches are declared the other way round.
C4_Interchange ==
    (Called /\ args.show_imports) =>
        \A i \in LastSeries.rows :
            LET ix == LastSeries.p_slice[ImportsKey][i] IN
            /\ ix = Div1e3(
                     SumOver([b \in DOMAIN n.lines |-> RuleTerm(n.lines, n.lines_t, b, RegionSet, i)],
                             DOMAIN n.lines)
                   + SumOver([b \in DOMAIN n.links |-> RuleTerm(n.links, n.links_t, b, RegionSet, i)],
                             DOMAIN n.links))
            /\ (AllLossless(n.lines, n.lines_t, RegionSet, i)
                /\ AllLossless(n.links, n.links_t, RegionSet, i)) =>
                 ix = Div1e3(
                     SumOver([b \in DOMAIN n.lines |-> NetInflow(n.lines, n.lines_t, b, RegionSet, i)],
                             DOMAIN n.lines)
                   + SumOver([b \in DOMAIN n.links |-> NetInflow(n.links, n.links_t, b, RegionSet, i)],
                             DOMAIN n.links))
            /\ ix = SeriesFor(Flipped(n), args.regions).p_slice[ImportsKey][i]

\* C4's case: region {A}, line l1 is the only crossing branch and carries 1000
\* out of A, declared from A or towards A: the interchange is -1
C4_Witness ==
    /\ Called
    /\ args.show_imports
    /\ args.regions = Some({"A"})
    /\ DOMAIN n.links = {}
    /\ \E i \in LastSeries.rows :
          /\ Crosses(n.lines, "l1", {"A"})
          /\ NetInflow(n.lines, n.lines_t, "l1", {"A"}, i) = -1000
          /\ n.lines["l1"].bus1 = "A"
          /\ LastSeries.p_slice[ImportsKey][i] = -1

----------------------------------------------------------------------------
(* Chart datasets and their specification (SpecChart) *)

\* one wind generator at A, at most one battery at B, nothing at C, and a
\* registry with or without an Imports/Exports entry of its own
ChartNetworks ==
    { Network({"A", "B", "C"}, TwoSnapshots,
              [g1 |-> [bus |-> "A", carrier |-> "Wind", p_nom |-> 2000]],
              [g1 |-> p1], [g1 |-> <<100, 100>>],
              sto[1], sto[2], Empty, Empty,
              LineAB, LineAB_t, Empty, NoBranches_t,
              ThreeLoads, TwoLoadSeries, carriers) :
        p1 \in {<<1000, 1000>>, <<0, 0>>},
        sto \in {<<Empty, Empty>>,
                 <<[s1 |-> [bus |-> "B", carrier |-> "Battery"]], [s1 |-> <<1000, -1000>>]>>},
        carriers \in {BaseCarriers, CarriersWithImports} }

InitChart ==
    /\ n \in ChartNetworks
    /\ args = NoArgs
    /\ out = NoOut

ChartRegions == {None, Some({}), Some({"A"}), Some({"C"})}

\* 2025 lies after the last snapshot
ChartTimes == {<<2024>>, <<2025>>, <<2023, 12, 31>>}

\* interactive=False: matplotlib
PlotStatic ==
    \E time \in ChartTimes, regions \in ChartRegions,
       show_imports \in BOOLEAN, show_curtailment \in BOOLEAN :
        PlotDispatch(time, IF Len(time) = 1 THEN None ELSE Some(2),
                     regions, show_imports, show_curtailment, FALSE)

\* interactive=True: plotly
PlotInteractive ==
    \E time \in ChartTimes, regions \in ChartRegions,
       show_imports \in BOOLEAN, show_curtailment \in BOOLEAN :
        PlotDispatch(time, IF Len(time) = 1 THEN None ELSE Some(2),
                     regions, show_imports, show_curtailment, TRUE)

NextChart == PlotStatic \/ PlotInteractive

SpecChart == InitChart /\ [][NextChart]_vars

\* the positions of the registry that hold the Imports/Exports label
ImportsRows(carriers) == {j \in 1..Len(carriers) : carriers[j].label = ImportsLabel}

\* C8: through any sequence of invocations the registry holds at most one
\* Imports/Exports entry; an invocation leaves every entry it found as it was
\* (an Imports/Exports color already there included), adds nothing but the one
\* Imports/Exports entry, adds nothing at all with show_imports false; and the
\* same invocation made again on the network it left does not touch the
\* registry, yields the same series and completes if the first one did.
C8_RegistryIdempotent ==
    /\ [](Cardinality(ImportsRows(n.carriers)) <= 1)
    /\ [][ /\ Len(n'.carriers) >= Len(n.carriers)
           /\ \A j \in 1..Len(n.carriers) : n'.carriers[j] = n.carriers[j]
           /\ \A j \in (Len(n.carriers) + 1)..Len(n'.carriers) :
                  /\ n'.carriers[j].label = ImportsLabel
                  /\ args'.show_imports
           /\ ~args'.show_imports => n'.carriers = n.carriers
           /\ carriers_after(n'.carriers, args'.show_imports) = n'.carriers
           /\ Outcome(n', args').series = out'.series
           /\ out'.status = "ok" => Outcome(n', args').status = "ok"
         ]_vars

\* C8's case: an invocation with show_imports has added the entry to a
\* registry that was without it and completed, and the same invocation made
\* again on this network reproduces its output
C8_Witness ==
    /\ Called
    /\ args.show_imports
    /\ out.status = "ok"
    /\ n.carriers = Append(BaseCarriers, [label |-> ImportsLabel, color |-> ImportsColor])
    /\ Outcome(n, args) = out

\* the region list is given and leaves an asset class without any asset
ZeroSelected ==
    /\ ~IsNone(args.regions)
    /\ \E table \in {n.generators, n.storage_units, n.stores} :
          {a \in DOMAIN table : table[a].bus \in Val(args.regions)} = {}

\* C10: an invocation whose region list selects no asset of some class, or
\* whose window holds no snapshot, completes with either backend.
C10_EmptySelectionCompletes ==
    (Called /\ (ZeroSelected \/ LastSeries.rows = {})) => out.status = "ok"

----------------------------------------------------------------------------
(* The zero-activity drop, column by column (Spec) *)

\* the asset tables that bring carrier columns, with their power tables
AssetClasses(net) ==
    [generators |-> [table |-> net.generators, p |-> net.generators_t.p],
     storage_units |-> [table |-> net.storage_units, p |-> net.storage_units_t.p],
     stores |-> [table |-> net.stores, p |-> net.stores_t.p]]

\* the assets of a table that the region list selects
InSelection(table, regions) ==
    {a \in DOMAIN table : IsNone(regions) \/ table[a].bus \in Val(regions)}

\* the power of the selected assets of one class and one carrier at row i
CarrierPower(cl, regions, c, i) ==
    SumOver([a \in DOMAIN cl.table |-> cl.p[a][i]],
            {a \in InSelection(cl.table, regions) : cl.table[a].carrier = c})

\* the columns, one per asset class and carrier label of a selected asset,
\* whose own values are not all zero over the rows
ActiveColumns(net, regions, rows) ==
    {k \in {"generators", "storage_units", "stores"}
           \X {"Wind", "Solar", "Hydro", "Battery", "Hydrogen"} :
        LET cl == AssetClasses(net)[k[1]] IN
        /\ \E a \in InSelection(cl.table, regions) : cl.table[a].carrier = k[2]
        /\ \E i \in rows : Div1e3(CarrierPower(cl, regions, k[2], i)) # 0}

\* C11: the carrier columns handed to the renderer are exactly the columns of
\* selected assets whose own values are not all zero in the window: a column
\* is dropped if and only if it is all zero there, whatever a same-labelled
\* column of another asset class holds.
C11_ZeroDropPerColumn ==
    Called =>
        CarrierKeys(LastSeries.p_slice)
          = ActiveColumns(n, args.regions, LastSeries.rows)

----------------------------------------------------------------------------
(* Branches that do not cross the region boundary (SpecIx) *)

\* a branch table, respectively one of its terminal tables, without the
\* branches that have both ends inside R or both ends outside R
CrossingOnly(table, R) ==
    [b \in {c \in DOMAIN table : Crosses(table, c, R)} |-> table[b]]
CrossingOnly_t(table, table_t, R) ==
    [p0 |-> [b \in {c \in DOMAIN table : Crosses(table, c, R)} |-> table_t.p0[b]],
     p1 |-> [b \in {c \in DOMAIN table : Crosses(table, c, R)} |-> table_t.p1[b]]]

\* the network without its non-crossing lines and links
WithoutInner(net, R) ==
    [net EXCEPT !.lines = CrossingOnly(net.lines, R),
                !.lines_t = CrossingOnly_t(net.lines, net.lines_t, R),
                !.links = CrossingOnly(net.links, R),
                !.links_t = CrossingOnly_t(net.links, net.links_t, R)]

\* some line or link has both ends inside R or both outside and carries power at row i
InnerFlow(net, R, i) ==
    \/ \E b \in DOMAIN net.lines : ~Crosses(net.lines, b, R) /\ net.lines_t.p0[b][i] # 0
    \/ \E b \in DOMAIN net.links : ~Crosses(net.links, b, R) /\ net.links_t.p0[b][i] # 0

\* C12: the Imports/Exports series is what it would be without the lines and
\* links that have both endpoints inside the region set or both outside it;
\* when the region set is all buses, or omitted, it is zero at every timestamp
\* of the window.
C12_NoInnerInterchange ==
    (Called /\ args.show_imports) =>
        \A i \in LastSeries.rows :
            LET ix == LastSeries.p_slice[ImportsKey][i] IN
            /\ ix = SeriesFor(WithoutInner(n, RegionSet), args.regions).p_slice[ImportsKey][i]
            /\ RegionSet = n.buses => ix = 0

\* C12's case: the regions are omitted or list every bus, a line carries power
\* in the window, and the interchange is zero there
C12_Witness ==
    /\ Called
    /\ args.show_imports
    /\ RegionSet = n.buses
    /\ \E i \in LastSeries.rows :
          /\ InnerFlow(n, RegionSet, i)
          /\ LastSeries.p_slice[ImportsKey][i] = 0

====
